---- MODULE Spec2Model ----
(***************************************************************************)
(* A model of the football match analysis program: CsvFileReader.read and  *)
(* MatchReader.mapRow (loading), WinsAnalysis.run (analysis),              *)
(* HTMLReport.print / ConsoleReport.print (output targets),                *)
(* Summary.buildAndPrintReport (orchestration) and index.ts (entry point). *)
(*                                                                         *)
(* JavaScript strings are TLA+ strings.  A value that may be undefined is  *)
(* a pair <<"string", s>> or <<"undefined", "">>; a number is a pair       *)
(* <<"number", n>> or <<"NaN", 0>>; a Date is <<"Date", y, m, d>>.         *)
(* A JavaScript array index k is the TLA+ index k + 1.                     *)
(***************************************************************************)
EXTENDS Integers, Sequences, FiniteSets, TLC

VARIABLES
    csv,        \* the text of the input file football.csv
    rows,       \* the rows (field lists) the text of csv was written from
    data,       \* CsvFileReader.data: the reader's held sequence of records
    console,    \* the lines written to standard output so far
    reportFile, \* ./report.html: [exists |-> BOOLEAN, content |-> STRING]
    lastOp,     \* the most recent operation and the calls it made
    pc          \* index.ts: the statement to run next ("caller" outside the script)

vars == <<csv, rows, data, console, reportFile, lastOp, pc>>

(***************************************************************************)
(* Bounds of the model.                                                    *)
(***************************************************************************)
MaxLines == 3
MaxMatches == 3
MaxConsole == 1
MaxWritten == 1

(***************************************************************************)
(* enum MatchResult                                                        *)
(***************************************************************************)
HomeWin == "H"
AwayWin == "A"
Draw == "D"

MatchResult == {HomeWin, AwayWin, Draw}

(***************************************************************************)
(* JavaScript values.                                                      *)
(***************************************************************************)
Str(s) == <<"string", s>>
Undefined == <<"undefined", "">>
Num(n) == <<"number", n>>
NaN == <<"NaN", 0>>

Digits == "0123456789"

CharAt(s, i) == SubSeq(s, i, i)

IsDigit(c) == \E k \in 1..10 : CharAt(Digits, k) = c

DigitValue(c) == (CHOOSE k \in 1..10 : CharAt(Digits, k) = c) - 1

\* String.prototype.indexOf for a one-character pattern, 1-based; 0 when absent.
IndexOf(s, c) ==
    LET at == {i \in 1..Len(s) : CharAt(s, i) = c}
    IN  IF at = {} THEN 0 ELSE CHOOSE i \in at : \A j \in at : i <= j

\* String.prototype.split with a one-character separator.
RECURSIVE split(_, _)
split(s, sep) ==
    LET i == IndexOf(s, sep)
    IN  IF i = 0 THEN <<s>>
        ELSE <<SubSeq(s, 1, i - 1)>> \o split(SubSeq(s, i + 1, Len(s)), sep)

\* The value of the decimal digits of s from position i on, up to the first
\* character that is not a digit.
RECURSIVE DigitsFrom(_, _, _)
DigitsFrom(s, i, acc) ==
    IF i <= Len(s) /\ IsDigit(CharAt(s, i))
    THEN DigitsFrom(s, i + 1, 10 * acc + DigitValue(CharAt(s, i)))
    ELSE acc

RECURSIVE SkipSpaces(_, _)
SkipSpaces(s, i) ==
    IF i <= Len(s) /\ CharAt(s, i) = " " THEN SkipSpaces(s, i + 1) ELSE i

\* parseInt(v), radix 10: leading blanks are skipped, a sign is accepted, the
\* longest run of digits is read, and anything after it is ignored; NaN when
\* there is no digit to read (undefined is converted to "undefined" first).
parseInt(v) ==
    IF v = Undefined THEN NaN
    ELSE LET s == v[2]
             b == SkipSpaces(s, 1)
             neg == b <= Len(s) /\ CharAt(s, b) = "-"
             d == IF b <= Len(s) /\ CharAt(s, b) \in {"-", "+"} THEN b + 1 ELSE b
         IN  IF d <= Len(s) /\ IsDigit(CharAt(s, d))
             THEN Num(IF neg THEN 0 - DigitsFrom(s, d, 0) ELSE DigitsFrom(s, d, 0))
             ELSE NaN

AllDigits(s) == \A i \in 1..Len(s) : IsDigit(CharAt(s, i))

\* Whether the text is a calendar date, written yyyy-mm-dd.
IsCalendarDate(s) ==
    /\ Len(s) = 10
    /\ CharAt(s, 5) = "-" /\ CharAt(s, 8) = "-"
    /\ AllDigits(SubSeq(s, 1, 4)) /\ AllDigits(SubSeq(s, 6, 7))
    /\ AllDigits(SubSeq(s, 9, 10))
    /\ DigitsFrom(s, 6, 0) \in 1..12
    /\ DigitsFrom(s, 9, 0) \in 1..31

\* dateStringToDate: the calendar date a date text denotes (it fails with a
\* DecodeError, see RowDecodes, when the text is no calendar date).
dateStringToDate(s) ==
    <<"Date", DigitsFrom(s, 1, 0), DigitsFrom(s, 6, 0), DigitsFrom(s, 9, 0)>>

\* row[k] of a JavaScript array: undefined past the end.
At(row, k) == IF k + 1 <= Len(row) THEN Str(row[k + 1]) ELSE Undefined

\* Whether mapRow returns for the row (it throws when the date does not parse).
RowDecodes(row) == IsCalendarDate(row[1])

\* MatchReader.mapRow: the fields by position; row[5] is cast, not checked.
mapRow(row) ==
    << dateStringToDate(row[1]),
       At(row, 1),
       At(row, 2),
       parseInt(At(row, 3)),
       parseInt(At(row, 4)),
       At(row, 5),
       At(row, 6) >>

(***************************************************************************)
(* WinsAnalysis.run                                                        *)
(***************************************************************************)
\* IsWin with the away clause testing for a home win.
IsWinHomeOnly(team, match) ==
    \/ (match[2] = Str(team) /\ match[6] = Str(HomeWin))
    \/ (match[3] = Str(team) /\ match[6] = Str(HomeWin))

\* The condition of the if statement in the loop, for one match.
IsWin(team, match) ==
    \/ (match[2] = Str(team) /\ match[6] = Str(HomeWin))
    \/ (match[3] = Str(team) /\ match[6] = Str(AwayWin))

\* WinsLoop leaving the loop at the first match that is not a win.
RECURSIVE WinsLoopBreak(_, _, _, _)
WinsLoopBreak(team, matches, i, teamWins) ==
    IF i > Len(matches) \/ ~IsWin(team, matches[i]) THEN teamWins
    ELSE WinsLoopBreak(team, matches, i + 1, teamWins + 1)

\* The for loop: teamWins after the matches from position i on.
RECURSIVE WinsLoop(_, _, _, _)
WinsLoop(team, matches, i, teamWins) ==
    IF i > Len(matches) THEN teamWins
    ELSE WinsLoop(team, matches, i + 1,
                  IF IsWin(team, matches[i]) THEN teamWins + 1 ELSE teamWins)

run(team, matches) ==
    team \o " won " \o ToString(WinsLoop(team, matches, 1, 0)) \o " games"

(***************************************************************************)
(* CsvFileReader.read                                                      *)
(***************************************************************************)
\* ReadRows taking the first line for a header and skipping it.
ReadRowsSkipHeader(text) ==
    LET lines == Tail(split(text, "\n"))
    IN  [i \in 1..Len(lines) |-> split(lines[i], ",")]

\* The rows of a text: .split("\n") and then .split(",") of every line.
ReadRows(text) ==
    LET lines == split(text, "\n")
    IN  [i \in 1..Len(lines) |-> split(lines[i], ",")]

\* read emptying this.data before it reads the file.
readClearing(held, text, ioOk) ==
    IF ~ioOk THEN [err |-> "IOError", data |-> <<>>, mapped |-> <<>>]
    ELSE LET rs == ReadRows(text)
         IN  IF \E i \in 1..Len(rs) : ~RowDecodes(rs[i])
             THEN [err |-> "DecodeError", data |-> <<>>, mapped |-> <<>>]
             ELSE [err |-> "none",
                   data |-> [i \in 1..Len(rs) |-> mapRow(rs[i])],
                   mapped |-> rs]

\* read() on a reader holding `held`: readFileSync either fails (ioOk is
\* FALSE) or returns the text; every row is then handed to mapRow, in order,
\* and this.data is assigned only when none of it threw.
read(held, text, ioOk) ==
    IF ~ioOk THEN [err |-> "IOError", data |-> held, mapped |-> <<>>]
    ELSE LET rs == ReadRows(text)
         IN  IF \E i \in 1..Len(rs) : ~RowDecodes(rs[i])
             THEN LET bad == CHOOSE i \in 1..Len(rs) :
                                /\ ~RowDecodes(rs[i])
                                /\ \A j \in 1..(i - 1) : RowDecodes(rs[j])
                  IN  [err |-> "DecodeError", data |-> held,
                       mapped |-> SubSeq(rs, 1, bad)]
             ELSE [err |-> "none",
                   data |-> [i \in 1..Len(rs) |-> mapRow(rs[i])],
                   mapped |-> rs]

(***************************************************************************)
(* Output targets                                                          *)
(***************************************************************************)
HtmlHead ==
    "\n        <div>\n            <h1>Analysis Output</h1>\n            <div>"

HtmlTail == "</div>\n        </div>\n        "

\* The template literal of HTMLReport.print.
Html(report) == HtmlHead \o report \o HtmlTail

NoFile == [exists |-> FALSE, content |-> ""]

\* How a call of fs.writeFileSync can end: it returns; it throws before the
\* file is opened; or it throws after the file was opened, which truncates
\* it, with the first `written` characters in the file.
WriteOutcomes ==
    {[ok |-> TRUE, opened |-> TRUE, written |-> 0],
     [ok |-> FALSE, opened |-> FALSE, written |-> 0]}
    \cup {[ok |-> FALSE, opened |-> TRUE, written |-> k] : k \in 0..MaxWritten}

Min(a, b) == IF a <= b THEN a ELSE b

\* writeFileSync opening the file for appending (fs.appendFileSync).
appendFileSync(file, text, outcome) ==
    IF outcome.ok THEN [exists |-> TRUE, content |-> file.content \o text]
    ELSE IF ~outcome.opened THEN file
    ELSE [exists |-> TRUE,
          content |-> file.content
                      \o SubSeq(text, 1, Min(outcome.written, Len(text) - 1))]

\* fs.writeFileSync(path, text): the file's content afterwards.
writeFileSync(file, text, outcome) ==
    IF outcome.ok THEN [exists |-> TRUE, content |-> text]
    ELSE IF ~outcome.opened THEN file
    ELSE [exists |-> TRUE,
          content |-> SubSeq(text, 1, Min(outcome.written, Len(text) - 1))]

\* HTMLReport.print removing the report file when the write fails.
HTMLReportPrintCleanup(report, con, file, outcome) ==
    [console |-> con,
     file |-> IF outcome.ok THEN writeFileSync(file, Html(report), outcome)
              ELSE NoFile,
     err |-> IF outcome.ok THEN "none" ELSE "IOError"]

\* HTMLReport.print
HTMLReportPrint(report, con, file, outcome) ==
    [console |-> con,
     file |-> writeFileSync(file, Html(report), outcome),
     err |-> IF outcome.ok THEN "none" ELSE "IOError"]

\* ConsoleReport.print: the report and a line break on standard output.
ConsoleReportPrint(report, con, file, outcome) ==
    [console |-> Append(con, report), file |-> file, err |-> "none"]

\* outputTarget.print(report), by the class of the target.
print(target, report, con, file, outcome) ==
    IF target = "HTMLReport"
    THEN HTMLReportPrint(report, con, file, outcome)
    ELSE ConsoleReportPrint(report, con, file, outcome)

Targets == {"ConsoleReport", "HTMLReport"}

(***************************************************************************)
(* Summary.buildAndPrintReport                                             *)
(***************************************************************************)
\* buildAndPrintReport running the analyzer a second time for the print.
buildAndPrintReportRerun(team, target, matches, con, file, outcome) ==
    LET report == run(team, matches)
        p == print(target, report, con, file, outcome)
    IN  [calls |-> << [fn |-> "run", arg |-> matches, ret |-> report],
                      [fn |-> "run", arg |-> matches, ret |-> report],
                      [fn |-> "print", arg |-> report, ret |-> p.err] >>,
         console |-> p.console,
         file |-> p.file,
         err |-> p.err]

\* new Summary(new WinsAnalysis(team), target).buildAndPrintReport(matches):
\* the calls it makes, in order, and what they leave behind.
buildAndPrintReport(team, target, matches, con, file, outcome) ==
    LET report == run(team, matches)
        p == print(target, report, con, file, outcome)
    IN  [calls |-> << [fn |-> "run", arg |-> matches, ret |-> report],
                      [fn |-> "print", arg |-> report, ret |-> p.err] >>,
         console |-> p.console,
         file |-> p.file,
         err |-> p.err]

(***************************************************************************)
(* Inputs                                                                  *)
(***************************************************************************)
ManUnited == "Man United"
Bournemouth == "Bournemouth"
Leicester == "Leicester"

\* The teams an analysis is asked for; Leicester plays in no sample row.
Teams == {ManUnited, Bournemouth, Leicester}

RowHomeWin == <<"2024-01-01", ManUnited, Bournemouth, "2", "1", "H", "Cup">>
RowDraw == <<"2024-01-02", Bournemouth, ManUnited, "0", "0", "D", "Cup">>
RowAwayWin == <<"2024-01-03", Bournemouth, ManUnited, "1", "3", "A", "Cup">>
RowBadToken == <<"2024-01-04", ManUnited, Bournemouth, "1", "0", "X", "Cup">>
RowHeader == <<"Date", "Home", "Away", "HG", "AG", "Res", "Comp">>
RowEmpty == <<"">>

SampleRows ==
    {RowHomeWin, RowDraw, RowAwayWin, RowBadToken, RowHeader, RowEmpty}

\* Array.prototype.join
RECURSIVE Join(_, _)
Join(parts, sep) ==
    IF Len(parts) = 0 THEN ""
    ELSE IF Len(parts) = 1 THEN parts[1]
    ELSE parts[1] \o sep \o Join(Tail(parts), sep)

\* The text of a file written from rows: one line per row, fields separated
\* by commas, lines by line breaks (a final empty row is a final line break).
TextOf(rs) == Join([i \in 1..Len(rs) |-> Join(rs[i], ",")], "\n")

InputRows == UNION {[1..n -> SampleRows] : n \in 1..MaxLines}

\* Match records as an analyzer may be handed them.
SampleMatches ==
    {<<dateStringToDate("2024-01-01"), Str(h), Str(a), Num(1), Num(0), Str(r),
       Str("Cup")>> : h \in {ManUnited, Bournemouth},
                      a \in {ManUnited, Bournemouth},
                      r \in MatchResult}

MatchSeqs == UNION {[1..n -> SampleMatches] : n \in 0..MaxMatches}

NoOp ==
    [op |-> "none", err |-> "none", team |-> "", target |-> "", calls |-> <<>>,
     mapped |-> <<>>, heldBefore |-> <<>>, fileBefore |-> NoFile]

\* The input files of the runs that exercise every component together.
SystemRows ==
    {<<RowHomeWin>>, <<RowHomeWin, RowAwayWin>>, <<RowHomeWin, RowEmpty>>}

SystemTeams == {ManUnited, Bournemouth}

(***************************************************************************)
(* The components driven by any caller                                     *)
(***************************************************************************)
Init ==
    /\ rows \in SystemRows
    /\ csv = TextOf(rows)
    /\ data = <<>>
    /\ console = <<>>
    /\ reportFile = NoFile
    /\ lastOp = NoOp
    /\ pc = "caller"

\* The input file is replaced on disk.
EditCsv ==
    /\ \E rs \in SystemRows : rows' = rs /\ csv' = TextOf(rs)
    /\ lastOp' = [NoOp EXCEPT !.op = "edit"]
    /\ UNCHANGED <<data, console, reportFile, pc>>

\* reader.read()
Read ==
    \E ioOk \in BOOLEAN :
        LET r == read(data, csv, ioOk)
        IN  /\ data' = r.data
            /\ lastOp' = [NoOp EXCEPT !.op = "read", !.err = r.err,
                                      !.mapped = r.mapped,
                                      !.heldBefore = data]
            /\ UNCHANGED <<csv, rows, console, reportFile, pc>>

\* new Summary(new WinsAnalysis(team), target).buildAndPrintReport(reader.data)
BuildAndPrintReport ==
    \E team \in SystemTeams, target \in Targets, outcome \in WriteOutcomes :
        /\ target = "ConsoleReport" => (outcome.ok /\ Len(console) < MaxConsole)
        /\ LET b == buildAndPrintReport(team, target, data, console, reportFile,
                                        outcome)
           IN  /\ console' = b.console
               /\ reportFile' = b.file
               /\ lastOp' = [NoOp EXCEPT !.op = "buildAndPrintReport",
                                         !.err = b.err, !.team = team,
                                         !.target = target, !.calls = b.calls,
                                         !.fileBefore = reportFile]
        /\ UNCHANGED <<csv, rows, data, pc>>

Next == EditCsv \/ Read \/ BuildAndPrintReport

Spec == Init /\ [][Next]_vars

(***************************************************************************)
(* The reader alone, on every input file                                   *)
(***************************************************************************)
InitReader ==
    /\ rows \in InputRows
    /\ csv = TextOf(rows)
    /\ data = <<>>
    /\ console = <<>>
    /\ reportFile = NoFile
    /\ lastOp = NoOp
    /\ pc = "caller"

NextReader == Read

SpecReader == InitReader /\ [][NextReader]_vars

(***************************************************************************)
(* WinsAnalysis.run alone, on every sequence of matches                    *)
(***************************************************************************)
InitRun ==
    /\ rows = <<>>
    /\ csv = ""
    /\ data \in MatchSeqs
    /\ console = <<>>
    /\ reportFile = NoFile
    /\ lastOp = NoOp
    /\ pc = "caller"

\* new WinsAnalysis(team).run(matches)
RunAnalysis ==
    /\ \E team \in Teams :
          lastOp' = [NoOp EXCEPT
                        !.op = "run", !.team = team,
                        !.calls = << [fn |-> "run", arg |-> data,
                                      ret |-> run(team, data)] >>]
    /\ UNCHANGED <<csv, rows, data, console, reportFile, pc>>

NextRun == RunAnalysis

SpecRun == InitRun /\ [][NextRun]_vars

(***************************************************************************)
(* index.ts: the statements of the entry point, in order                   *)
(***************************************************************************)
\* after with every exception caught and dropped.
afterCaught(line, err) ==
    CASE line = "L10" -> "L16"
      [] line = "L16" -> "L20"
      [] line = "L20" -> "L24"
      [] line = "L24" -> "L26"
      [] OTHER -> "done"

\* The statement that runs after the one at `line` ended with `err`: nothing
\* catches an exception, so it ends the script.
after(line, err) ==
    IF err # "none" THEN "aborted"
    ELSE CASE line = "L10" -> "L16"
           [] line = "L16" -> "L20"
           [] line = "L20" -> "L24"
           [] line = "L24" -> "L26"
           [] OTHER -> "done"

InitIndex ==
    /\ rows \in InputRows
    /\ csv = TextOf(rows)
    /\ data = <<>>
    /\ console = <<>>
    /\ reportFile = NoFile
    /\ lastOp = NoOp
    /\ pc = "L10"

\* A load of a freshly constructed reader (lines 8-10 and 23-24).
Load(line) ==
    /\ pc = line
    /\ \E ioOk \in BOOLEAN :
          LET r == read(<<>>, csv, ioOk)
          IN  /\ data' = r.data
              /\ lastOp' = [NoOp EXCEPT !.op = "read", !.err = r.err,
                                        !.mapped = r.mapped]
              /\ pc' = after(line, r.err)
    /\ UNCHANGED <<csv, rows, console, reportFile>>

\* A Summary built and run on the matches loaded last (lines 15-16, 19-20, 25-26).
Report(line, team, target) ==
    /\ pc = line
    /\ \E outcome \in WriteOutcomes :
          /\ target = "ConsoleReport" => (outcome.ok /\ Len(console) < MaxConsole)
          /\ LET b == buildAndPrintReport(team, target, data, console,
                                          reportFile, outcome)
             IN  /\ console' = b.console
                 /\ reportFile' = b.file
                 /\ lastOp' = [NoOp EXCEPT !.op = "buildAndPrintReport",
                                           !.err = b.err, !.team = team,
                                           !.target = target, !.calls = b.calls,
                                           !.fileBefore = reportFile]
                 /\ pc' = after(line, b.err)
    /\ UNCHANGED <<csv, rows, data>>

L10 == Load("L10")
L16 == Report("L16", ManUnited, "ConsoleReport")
L20 == Report("L20", ManUnited, "HTMLReport")
L24 == Load("L24")
L26 == Report("L26", Bournemouth, "HTMLReport")

NextIndex == L10 \/ L16 \/ L20 \/ L24 \/ L26

SpecIndex == InitIndex /\ [][NextIndex]_vars

(***************************************************************************)
(* Properties                                                              *)
(***************************************************************************)
\* The number of matches the team won, counted over the positions.
WinCount(team, matches) ==
    Cardinality({i \in 1..Len(matches) :
                    \/ matches[i][2] = Str(team) /\ matches[i][6] = Str("H")
                    \/ matches[i][3] = Str(team) /\ matches[i][6] = Str("A")})

Plays(team, match) == match[2] = Str(team) \/ match[3] = Str(team)

\* The reorderings of a sequence.
PermsOf(seq) ==
    {[i \in 1..Len(seq) |-> seq[f[i]]] : f \in Permutations(1..Len(seq))}

\* Whether sub occurs in s.
Includes(s, sub) ==
    \E i \in 1..(Len(s) - Len(sub) + 1) : SubSeq(s, i, i + Len(sub) - 1) = sub

IsPrefix(p, s) == Len(p) <= Len(s) /\ SubSeq(s, 1, Len(p)) = p

\* The summaries an analysis of the system's input files can return.
SystemReports ==
    {t \o " won " \o ToString(n) \o " games" : t \in SystemTeams, n \in 0..MaxLines}

\* Whether the file holds what a successful file print wrote.
IsArtifact(file) ==
    file.exists /\ \E r \in SystemReports : file.content = Html(r)

RanReport == lastOp.op = "buildAndPrintReport"

\* C1: WinsAnalysis(t).run(ms) returns exactly "<t> won <n> games", n being
\* the number of records of ms where t is the home team and the result is a
\* home win, or t is the away team and the result is an away win; a record
\* counts at most once, and a team that plays in no record gets 0.
ThmC1 ==
    lastOp.op = "run" =>
        /\ lastOp.calls[1].ret
             = lastOp.team \o " won " \o ToString(WinCount(lastOp.team, data))
                 \o " games"
        /\ WinCount(lastOp.team, data) <= Len(data)
        /\ (\A i \in 1..Len(data) : ~Plays(lastOp.team, data[i]))
             => lastOp.calls[1].ret = lastOp.team \o " won 0 games"
        /\ data = <<>> => lastOp.calls[1].ret = lastOp.team \o " won 0 games"

\* C1 witness: a run over three matches of which the team won two, as home
\* team and as away team, and did not win the third.
WitC1 ==
    /\ lastOp.op = "run"
    /\ Len(data) = 3
    /\ lastOp.calls[1].ret = "Man United won 2 games"
    /\ \E i, j \in 1..3 :
          /\ data[i][2] = Str(ManUnited) /\ data[i][6] = Str(HomeWin)
          /\ data[j][3] = Str(ManUnited) /\ data[j][6] = Str(AwayWin)
          /\ data[j][2] # Str(ManUnited)

\* C2: the summary WinsAnalysis(t).run returns is the same for every
\* reordering of the sequence of matches.
ThmC2 ==
    lastOp.op = "run" =>
        \A ms \in PermsOf(data) : run(lastOp.team, ms) = lastOp.calls[1].ret

\* C2 witness: a run over matches that start with one the team did not win
\* and end with one it won, so that reordering moves a win forward.
WitC2 ==
    /\ lastOp.op = "run"
    /\ Len(data) = 3
    /\ ~IsWin(lastOp.team, data[1])
    /\ IsWin(lastOp.team, data[3])
    /\ lastOp.calls[1].ret = lastOp.team \o " won 1 games"

\* C3: a call of buildAndPrintReport(matches) calls the analyzer's run on
\* matches once, then the target's print once with the string run returned,
\* and changes nothing but what that one print writes.
ThmC3 ==
    [][lastOp'.op = "buildAndPrintReport" =>
          LET c == lastOp'.calls
          IN  /\ Len(c) = 2
              /\ c[1].fn = "run" /\ c[1].arg = data
              /\ c[1].ret = run(lastOp'.team, data)
              /\ c[2].fn = "print" /\ c[2].arg = c[1].ret
              /\ data' = data /\ csv' = csv
              /\ lastOp'.target = "ConsoleReport"
                   => console' = Append(console, c[1].ret)
                      /\ reportFile' = reportFile
              /\ lastOp'.target = "HTMLReport" => console' = console
              /\ (lastOp'.target = "HTMLReport" /\ lastOp'.err = "none")
                   => reportFile'.content = Html(c[1].ret)]_vars

\* C3 witness: a report of loaded matches printed to the file.
WitC3 ==
    /\ RanReport
    /\ lastOp.target = "HTMLReport" /\ lastOp.err = "none"
    /\ data # <<>>
    /\ lastOp.calls[2].arg = "Man United won 2 games"

\* C4: an input that ends in a line break gives one record per line that is
\* not empty: the decoder is never applied to the empty row after the last
\* line break.
CexC4 ==
    ( /\ lastOp.op = "read" /\ lastOp.err # "IOError"
      /\ Len(rows) >= 2
      /\ rows[Len(rows)] = RowEmpty
      /\ \A i \in 1..(Len(rows) - 1) : rows[i] # RowEmpty /\ RowDecodes(rows[i]) )
    => /\ lastOp.err = "none"
       /\ Len(data) = Len(rows) - 1
       /\ \A i \in 1..Len(lastOp.mapped) : lastOp.mapped[i] # RowEmpty

\* C5: a load of an input with a result token other than "H", "A", "D" fails
\* with a DecodeError and stores nothing; the held sequence never holds a
\* record whose result is outside HomeWin, AwayWin, Draw.
CexC5 ==
    /\ \A i \in 1..Len(data) : data[i][6] \in {Str(HomeWin), Str(AwayWin), Str(Draw)}
    /\ ( /\ lastOp.op = "read" /\ lastOp.err # "IOError"
         /\ \E i \in 1..Len(rows) :
               Len(rows[i]) >= 6 /\ rows[i][6] \notin MatchResult )
       => (lastOp.err = "DecodeError" /\ data = <<>>)

\* C6: in a run of the entry point, once a load has failed nothing is
\* printed: the console and the report file stay as they were.
ThmC6 ==
    [][(lastOp.op = "read" /\ lastOp.err # "none")
          => (console' = console /\ reportFile' = reportFile /\ pc' = "aborted")]_vars

\* C6 witness: the second load of the entry point failed after the first two
\* reports were printed, and the script ended there.
WitC6 ==
    /\ pc = "aborted"
    /\ lastOp.op = "read" /\ lastOp.err = "IOError"
    /\ Len(console) = 1
    /\ reportFile.exists

\* C7 as claimed: a print that fails leaves what every earlier successful
\* print produced unchanged, the content of ./report.html included.
CexC7 ==
    [][(lastOp'.op = "buildAndPrintReport" /\ lastOp'.err # "none")
          => /\ console' = console
             /\ IsArtifact(reportFile) => reportFile' = reportFile]_vars

\* C7 as amended: a print that fails leaves the console lines already written
\* unchanged; it leaves ./report.html unchanged when it fails before the file
\* is opened, and otherwise leaves there a proper prefix, possibly empty, of
\* the markup it was writing.
ThmC7 ==
    [][(lastOp'.op = "buildAndPrintReport" /\ lastOp'.err # "none")
          => /\ console' = console
             /\ data' = data
             /\ \/ reportFile' = reportFile
                \/ /\ reportFile'.exists
                   /\ IsPrefix(reportFile'.content, Html(lastOp'.calls[2].arg))
                   /\ reportFile'.content # Html(lastOp'.calls[2].arg)]_vars

\* C7 witness: a file print failed after an earlier one had succeeded and a
\* console line had been written; the file no longer holds the earlier report.
WitC7 ==
    /\ RanReport
    /\ lastOp.target = "HTMLReport" /\ lastOp.err = "IOError"
    /\ IsArtifact(lastOp.fileBefore)
    /\ reportFile # lastOp.fileBefore
    /\ Len(console) = 1

\* C8: after a successful file print the file is exactly the markup template
\* around the report of that print: it contains the report and the heading,
\* and no report of an earlier print.
ThmC8 ==
    (RanReport /\ lastOp.target = "HTMLReport" /\ lastOp.err = "none") =>
        LET r == lastOp.calls[2].arg
        IN  /\ reportFile.exists
            /\ reportFile.content = HtmlHead \o r \o HtmlTail
            /\ Includes(reportFile.content, r)
            /\ Includes(reportFile.content, "<h1>Analysis Output</h1>")
            /\ Includes(reportFile.content, "<div>" \o r \o "</div>")
            /\ \A r0 \in SystemReports \ {r} : ~Includes(reportFile.content, r0)

\* C8 witness: a successful file print over the file an earlier successful
\* print of another report had written.
WitC8 ==
    /\ RanReport
    /\ lastOp.target = "HTMLReport" /\ lastOp.err = "none"
    /\ IsArtifact(lastOp.fileBefore)
    /\ lastOp.fileBefore.content # reportFile.content

\* A month or a day in two digits.
Pad2(n) == IF n < 10 THEN "0" \o ToString(n) ELSE ToString(n)

\* The value of a goals field of the sample rows.
Goals(s) == IF s = "0" THEN 0 ELSE IF s = "1" THEN 1 ELSE IF s = "2" THEN 2 ELSE 3

\* C9: a successful load holds one record per row of the input, in the
\* order of the rows, the first line included; the fields of a record are
\* the fields of its row by position.
ThmC9 ==
    (lastOp.op = "read" /\ lastOp.err = "none") =>
        /\ Len(data) = Len(rows)
        /\ \A i \in 1..Len(rows) :
              /\ Len(rows[i]) = 7
              /\ data[i][1][1] = "Date"
              /\ rows[i][1] = Join(<<ToString(data[i][1][2]),
                                     Pad2(data[i][1][3]),
                                     Pad2(data[i][1][4])>>, "-")
              /\ data[i][2] = Str(rows[i][2])
              /\ data[i][3] = Str(rows[i][3])
              /\ data[i][4] = Num(Goals(rows[i][4]))
              /\ data[i][5] = Num(Goals(rows[i][5]))
              /\ data[i][6] = Str(rows[i][6])
              /\ data[i][7] = Str(rows[i][7])

\* C9 witness: a successful load of three different rows.
WitC9 ==
    /\ lastOp.op = "read" /\ lastOp.err = "none"
    /\ rows = <<RowAwayWin, RowHomeWin, RowDraw>>
    /\ Len(data) = 3

\* C10 as claimed: once it holds records, the held sequence never changes.
CexC10 == [][data # <<>> => data' = data]_vars

\* C10 as amended: the held sequence is empty at first and only a successful
\* read changes it, to the decoding of the file as it is then; a read that
\* fails, and every run, buildAndPrintReport and print, leave it as it was.
ThmC10 ==
    /\ data = <<>>
    /\ [][data' # data =>
             /\ lastOp'.op = "read" /\ lastOp'.err = "none"
             /\ data' = [i \in 1..Len(rows) |-> mapRow(rows[i])]]_vars

\* C10 witness: a read failed on a reader that held records, which it still
\* holds, after reports were printed from them.
WitC10 ==
    /\ lastOp.op = "read" /\ lastOp.err # "none"
    /\ lastOp.heldBefore # <<>>
    /\ data = lastOp.heldBefore
    /\ console # <<>>
    /\ reportFile.exists

====
